---- MODULE Spec2Model ----
(***************************************************************************)
(* Model of the audio preview component of onedrive-vercel-index          *)
(* (src/components/previews/AudioPreview.tsx and its later revision):     *)
(* the playlist builder over paginated folder data, the lyric fetch and   *)
(* LRC parser, the lyric sync poll timer and the playback state machine.  *)
(*                                                                         *)
(* Strings are sequences of one-character strings, so that startsWith,    *)
(* replace, match, trim and parseInt are computed character by character. *)
(* Lyric times are integers in milliseconds (the code's seconds * 1000).  *)
(*                                                                         *)
(* The source holds three revisions of the component.  The variable       *)
(* `variant` selects one; it never changes in a behaviour:                *)
(*   "flag"    AudioPreview.tsx lines 1-565   (hasLyrics, isLoadingPlaylist)*)
(*   "tabs"    AudioPreview.tsx lines 566-1191 (showLyrics, tabbed layout) *)
(*   "compact" unnamed/part_000               (tabbed layout, fewer events)*)
(*                                                                         *)
(* A step of the model is one handler of the event loop (a click, a media *)
(* event, a fetch completion, a timer tick) together with the re-render   *)
(* and the effects that React flushes before the next handler runs.       *)
(***************************************************************************)
EXTENDS Integers, Sequences, FiniteSets, Bags, TLC

(***************************************************************************)
(* Bounds of the model                                                     *)
(***************************************************************************)
\* most lyric requests in flight at once
MaxPending == 2
\* largest page count the auto-load effect may request
MaxSize == 3
\* most lines of a lyric text in the parser runs
MaxLines == 3
\* most characters of a file name in the lyric name runs
MaxNameLen == 4
\* largest width and height of an image element in the color runs
MaxImageSize == 4

(***************************************************************************)
(* Characters and strings                                                  *)
(***************************************************************************)
Digits == {"0", "1", "2", "3", "4", "5", "6", "7", "8", "9"}

\* String.prototype.trim strips white space and line terminators
WhiteSpace == {" ", "\t", "\r", "\n"}

\* "." in a regular expression (no s flag) matches all but line terminators
LineTerminators == {"\n", "\r"}

DigitVal(c) ==
  CASE c = "0" -> 0 [] c = "1" -> 1 [] c = "2" -> 2 [] c = "3" -> 3
    [] c = "4" -> 4 [] c = "5" -> 5 [] c = "6" -> 6 [] c = "7" -> 7
    [] c = "8" -> 8 [] c = "9" -> 9

\* parseInt of a non-empty string of decimal digits
RECURSIVE ParseInt(_)
ParseInt(s) ==
  IF s = <<>> THEN 0
  ELSE 10 * ParseInt(SubSeq(s, 1, Len(s) - 1)) + DigitVal(s[Len(s)])

\* String.prototype.padEnd(n, '0')
RECURSIVE PadEnd0(_, _)
PadEnd0(s, n) == IF Len(s) >= n THEN s ELSE PadEnd0(Append(s, "0"), n)

\* String.prototype.startsWith
StartsWith(s, prefix) ==
  /\ Len(s) >= Len(prefix)
  /\ SubSeq(s, 1, Len(prefix)) = prefix

\* String.prototype.trim
RECURSIVE TrimStart(_)
TrimStart(s) ==
  IF s # <<>> /\ s[1] \in WhiteSpace THEN TrimStart(Tail(s)) ELSE s

RECURSIVE TrimEnd(_)
TrimEnd(s) ==
  IF s # <<>> /\ s[Len(s)] \in WhiteSpace
  THEN TrimEnd(SubSeq(s, 1, Len(s) - 1)) ELSE s

Trim(s) == TrimEnd(TrimStart(s))

\* String.prototype.split('\n')
RECURSIVE SplitLines(_)
SplitLines(s) ==
  IF \A i \in 1..Len(s) : s[i] # "\n" THEN <<s>>
  ELSE LET k == CHOOSE i \in 1..Len(s) :
                  s[i] = "\n" /\ \A j \in 1..(i - 1) : s[j] # "\n"
       IN <<SubSeq(s, 1, k - 1)>> \o SplitLines(SubSeq(s, k + 1, Len(s)))

(***************************************************************************)
(* parseLRC                                                                *)
(***************************************************************************)
IsDigitAt(line, i) == i >= 1 /\ i <= Len(line) /\ line[i] \in Digits

IsCharAt(line, i, c) == i >= 1 /\ i <= Len(line) /\ line[i] = c

\* The number of fraction digits that (\d{2,3})? takes at position i when the
\* closing bracket must follow: 3 before 2 before none (greedy), -1 if the
\* closing bracket cannot be reached.
FracLenAt(line, i) ==
  IF IsDigitAt(line, i) /\ IsDigitAt(line, i + 1) /\ IsDigitAt(line, i + 2)
     /\ IsCharAt(line, i + 3, "]") THEN 3
  ELSE IF IsDigitAt(line, i) /\ IsDigitAt(line, i + 1)
          /\ IsCharAt(line, i + 2, "]") THEN 2
  ELSE IF IsCharAt(line, i, "]") THEN 0
  ELSE -1

\* /\[(\d{2}):(\d{2})\.?(\d{2,3})?\]/ tried at position p of the line: the
\* position after the optional dot and the fraction length, or fracLen -1.
HeadAt(line, p) ==
  IF /\ IsCharAt(line, p, "[")
     /\ IsDigitAt(line, p + 1) /\ IsDigitAt(line, p + 2)
     /\ IsCharAt(line, p + 3, ":")
     /\ IsDigitAt(line, p + 4) /\ IsDigitAt(line, p + 5)
  THEN IF IsCharAt(line, p + 6, ".") /\ FracLenAt(line, p + 7) >= 0
       THEN [fracAt |-> p + 7, fracLen |-> FracLenAt(line, p + 7)]
       ELSE [fracAt |-> p + 6, fracLen |-> FracLenAt(line, p + 6)]
  ELSE [fracAt |-> 0, fracLen |-> -1]

MatchesAt(line, p) == HeadAt(line, p).fracLen >= 0

\* the longest prefix without a line terminator: what (.*) captures
RECURSIVE DotStar(_)
DotStar(s) ==
  IF s = <<>> \/ s[1] \in LineTerminators THEN <<>>
  ELSE <<s[1]>> \o DotStar(Tail(s))

\* line.match(...): the leftmost match, as its four groups, or matched FALSE
LineMatch(line) ==
  IF \E p \in 1..Len(line) : MatchesAt(line, p)
  THEN LET p == CHOOSE q \in 1..Len(line) :
                  MatchesAt(line, q) /\ \A r \in 1..(q - 1) : ~MatchesAt(line, r)
           h == HeadAt(line, p)
       IN [matched |-> TRUE,
           g1 |-> SubSeq(line, p + 1, p + 2),
           g2 |-> SubSeq(line, p + 4, p + 5),
           g3 |-> SubSeq(line, h.fracAt, h.fracAt + h.fracLen - 1),
           g4 |-> DotStar(SubSeq(line, h.fracAt + h.fracLen + 1, Len(line)))]
  ELSE [matched |-> FALSE, g1 |-> <<>>, g2 |-> <<>>, g3 |-> <<>>, g4 |-> <<>>]

\* mutant: the fraction digits are read without padding
MillisecondsUnpadded(g3) == IF g3 # <<>> THEN ParseInt(g3) ELSE 0

\* match[3] ? parseInt(match[3].padEnd(3, '0')) : 0
Milliseconds(g3) == IF g3 # <<>> THEN ParseInt(PadEnd0(g3, 3)) ELSE 0

\* the body of lines.forEach: the lyric lines one text line contributes
LineLyrics(line) ==
  LET m == LineMatch(line) IN
  IF m.matched /\ Trim(m.g4) # <<>>
  THEN <<[time |-> (ParseInt(m.g1) * 60 + ParseInt(m.g2)) * 1000 + Milliseconds(m.g3),
          text |-> Trim(m.g4)]>>
  ELSE <<>>

RECURSIVE CollectLyrics(_)
CollectLyrics(lines) ==
  IF lines = <<>> THEN <<>>
  ELSE LineLyrics(Head(lines)) \o CollectLyrics(Tail(lines))

\* mutant: a sort that puts an element before the elements equal to it
RECURSIVE InsertBeforeEqual(_, _)
InsertBeforeEqual(sorted, x) ==
  IF sorted = <<>> THEN <<x>>
  ELSE IF sorted[Len(sorted)].time < x.time THEN Append(sorted, x)
  ELSE Append(InsertBeforeEqual(SubSeq(sorted, 1, Len(sorted) - 1), x), sorted[Len(sorted)])

\* Array.prototype.sort((a, b) => a.time - b.time): a stable sort
RECURSIVE InsertByTime(_, _)
InsertByTime(sorted, x) ==
  IF sorted = <<>> THEN <<x>>
  ELSE IF sorted[Len(sorted)].time <= x.time THEN Append(sorted, x)
  ELSE Append(InsertByTime(SubSeq(sorted, 1, Len(sorted) - 1), x), sorted[Len(sorted)])

RECURSIVE SortByTime(_)
SortByTime(s) ==
  IF s = <<>> THEN <<>>
  ELSE InsertByTime(SortByTime(SubSeq(s, 1, Len(s) - 1)), s[Len(s)])

parseLRC(lrcText) == SortByTime(CollectLyrics(SplitLines(lrcText)))

(***************************************************************************)
(* The drive: file names, MIME types, folder listings and lyric files      *)
(***************************************************************************)
A_MP3 == <<"a", ".", "m", "p", "3">>

B_TXT == <<"b", ".", "t", "x", "t">>

C_FLAC == <<"c", ".", "f", "l", "a", "c">>

D_MP3 == <<"d", ".", "m", "p", "3">>

E_TXT == <<"e", ".", "t", "x", "t">>

SUB == <<"s", "u", "b">>

A_LRC == <<"a", ".", "l", "r", "c">>

C_LRC == <<"c", ".", "l", "r", "c">>

AUDIO_PREFIX == <<"a", "u", "d", "i", "o", "/">>

AUDIO_MPEG == AUDIO_PREFIX \o <<"m", "p", "e", "g">>

AUDIO_FLAC == AUDIO_PREFIX \o <<"f", "l", "a", "c">>

TEXT_PLAIN == <<"t", "e", "x", "t", "/", "p", "l", "a", "i", "n">>

\* a MIME type that contains, but does not begin with, "audio/"
TEXT_AUDIO == <<"x", "-">> \o AUDIO_PREFIX \o <<"x">>

\* a MIME type that is a proper prefix of "audio/"
AUDIO_ONLY == <<"a", "u", "d", "i", "o">>

\* a drive item of a listing: folders carry no file facet
FileItem(name, mimeType) == [name |-> name, isFile |-> TRUE, mimeType |-> mimeType]

FolderItem(name) == [name |-> name, isFile |-> FALSE, mimeType |-> <<>>]

\* the continuation token of a page: absent, the literal string 'undefined',
\* or a token
NoToken == "none"

UndefinedLiteral == "undefined"

Token == "token"

Page(value, next) == [value |-> value, next |-> next]

Folders == {"/music", "/empty"}

\* the pages the listing endpoint returns for a folder, in order
Listing(path) ==
  CASE path = "/music" ->
         << Page(<<FileItem(A_MP3, AUDIO_MPEG), FileItem(B_TXT, TEXT_PLAIN)>>, Token),
            Page(<<FolderItem(SUB), FileItem(E_TXT, TEXT_AUDIO),
                   FileItem(D_MP3, AUDIO_ONLY)>>, Token),
            Page(<<FileItem(C_FLAC, AUDIO_FLAC)>>, NoToken) >>
    [] path = "/empty" ->
         << Page(<<>>, UndefinedLiteral) >>

\* the files the component can be opened on: the preview's entry points
EntryPoints ==
  { [path |-> "/music", file |-> FileItem(A_MP3, AUDIO_MPEG)],
    [path |-> "/empty", file |-> FileItem(D_MP3, AUDIO_MPEG)] }

\* the entry points whose folder listing holds the file
ListedEntryPoints ==
  { e \in EntryPoints :
      \E i \in 1..Len(Listing(e.path)) :
        \E j \in 1..Len(Listing(e.path)[i].value) :
          Listing(e.path)[i].value[j] = e.file }

\* "[00:05]A2\n[00:01.50]A1\n[00:05]A3"
LRC_A ==
  << "[", "0", "0", ":", "0", "5", "]", "A", "2", "\n",
     "[", "0", "0", ":", "0", "1", ".", "5", "0", "]", "A", "1", "\n",
     "[", "0", "0", ":", "0", "5", "]", "A", "3" >>

\* "[00:02.500] C1\r\nno time\n[00:07]  "
LRC_C ==
  << "[", "0", "0", ":", "0", "2", ".", "5", "0", "0", "]", " ", "C", "1", "\r", "\n",
     "n", "o", " ", "t", "i", "m", "e", "\n",
     "[", "0", "0", ":", "0", "7", "]", " ", " " >>

\* "[00:01]   " : a lyric file without a usable line
LRC_D == << "[", "0", "0", ":", "0", "1", "]", " ", " ", " " >>

\* a lyric request: the folder and the .lrc file name asked for
Request(path, lrcFileName) == [path |-> path, name |-> lrcFileName]

\* the lyric files the drive holds
LrcFiles ==
  { Request("/music", A_LRC), Request("/music", C_LRC), Request("/empty", A_LRC) }

LrcText(req) ==
  CASE req = Request("/music", A_LRC) -> LRC_A
    [] req = Request("/music", C_LRC) -> LRC_C
    [] req = Request("/empty", A_LRC) -> LRC_D

\* how a lyric request can end: an OK response, a non-OK response, a rejection
Outcomes(req) == IF req \in LrcFiles THEN {"ok", "reject"} ELSE {"notok", "reject"}

\* rap.currentTime, in milliseconds
Positions == {0, 2500, 5000}

\* the position at which a track ends
Duration == CHOOSE t \in Positions : \A u \in Positions : u <= t

(***************************************************************************)
(* Pure parts of the component                                             *)
(***************************************************************************)
\* mutant: the prefix tested lacks the slash
isAudioFileNoSlash(mimeType) == StartsWith(mimeType, AUDIO_ONLY)

\* isAudioFile
isAudioFile(mimeType) == StartsWith(mimeType, AUDIO_PREFIX)

\* [].concat(...responses.map(r => r.folder?.value || []))
RECURSIVE AllFiles(_)
AllFiles(responses) ==
  IF responses = <<>> THEN <<>>
  ELSE Head(responses).value \o AllFiles(Tail(responses))

\* allFiles.filter(f => f.file && isAudioFile(f.file.mimeType))
RECURSIVE AudioFiles(_)
AudioFiles(allFiles) ==
  IF allFiles = <<>> THEN <<>>
  ELSE (IF Head(allFiles).isFile /\ isAudioFile(Head(allFiles).mimeType)
        THEN <<Head(allFiles)>> ELSE <<>>) \o AudioFiles(Tail(allFiles))

\* the playlist the playlist effect sets: audioFiles.map(f => ({name, file}))
BuildPlaylist(responses) == AudioFiles(AllFiles(responses))

\* a test of the token that finds none on any page
HasNextNever(v, responses) == FALSE

\* lastResponse?.next of the "flag" variant
NextTruthy(responses) ==
  responses # <<>> /\ responses[Len(responses)].next # NoToken

\* lastResponse?.next && lastResponse.next !== 'undefined'
NextPresent(responses) ==
  /\ responses # <<>>
  /\ responses[Len(responses)].next # NoToken
  /\ responses[Len(responses)].next # UndefinedLiteral

HasNext(v, responses) ==
  IF v = "flag" THEN NextTruthy(responses) ELSE NextPresent(responses)

\* playlist.findIndex(item => item.name === name), 0-based, -1 if absent
FindIndex(list, name) ==
  IF \E i \in 1..Len(list) : list[i].name = name
  THEN (CHOOSE i \in 1..Len(list) :
          list[i].name = name /\ \A j \in 1..(i - 1) : list[j].name # name) - 1
  ELSE -1

\* fileName.replace(/\.[^.]+$/, '.lrc')
LrcFileName(fileName) ==
  IF \E k \in 1..(Len(fileName) - 1) :
       fileName[k] = "." /\ \A j \in (k + 1)..Len(fileName) : fileName[j] # "."
  THEN LET k == CHOOSE i \in 1..(Len(fileName) - 1) :
                  fileName[i] = "." /\ \A j \in (i + 1)..Len(fileName) : fileName[j] # "."
       IN SubSeq(fileName, 1, k - 1) \o <<".", "l", "r", "c">>
  ELSE fileName

\* encodeURIComponent on one character: the characters it escapes, among
\* those of the model, as their percent-encoding
EscapeOf(c) ==
  CASE c = " " -> <<"%", "2", "0">>
    [] c = "#" -> <<"%", "2", "3">>
    [] c = "%" -> <<"%", "2", "5">>
    [] c = "&" -> <<"%", "2", "6">>
    [] c = "+" -> <<"%", "2", "B">>
    [] c = "/" -> <<"%", "2", "F">>
    [] c = ":" -> <<"%", "3", "A">>
    [] c = "?" -> <<"%", "3", "F">>
    [] OTHER -> <<c>>

RECURSIVE encodeURIComponent(_)
encodeURIComponent(str) ==
  IF str = <<>> THEN <<>>
  ELSE EscapeOf(Head(str)) \o encodeURIComponent(Tail(str))

\* mutant: the scan stops at the first line that is not before the position
RECURSIVE ForwardScanBefore(_, _, _, _)
ForwardScanBefore(lines, time, i, index) ==
  IF i > Len(lines) THEN index
  ELSE IF time > lines[i].time THEN ForwardScanBefore(lines, time, i + 1, i - 1)
  ELSE index

\* updateLyric's loop of the "flag" and "tabs" variants: a forward scan that
\* stops at the first line later than the position; 0-based, -1 if none
RECURSIVE ForwardScan(_, _, _, _)
ForwardScan(lines, time, i, index) ==
  IF i > Len(lines) THEN index
  ELSE IF time >= lines[i].time THEN ForwardScan(lines, time, i + 1, i - 1)
  ELSE index

\* lyrics.findLastIndex(l => time >= l.time) of the "compact" variant
FindLastIndex(lines, time) ==
  IF \E i \in 1..Len(lines) : time >= lines[i].time
  THEN (CHOOSE i \in 1..Len(lines) :
          time >= lines[i].time /\ \A j \in (i + 1)..Len(lines) : ~(time >= lines[j].time)) - 1
  ELSE -1

\* mutant: a line counts only when its time is before the position
LyricIndexStrict(v, lines, time) == ForwardScan(lines, time - 1, 1, -1)

LyricIndex(v, lines, time) ==
  IF v = "compact" THEN FindLastIndex(lines, time) ELSE ForwardScan(lines, time, 1, -1)


(***************************************************************************)
(* Inputs of the parser runs and of the playlist builder runs              *)
(***************************************************************************)
DigitChar(d) ==
  CASE d = 0 -> "0" [] d = 1 -> "1" [] d = 2 -> "2" [] d = 3 -> "3"
    [] d = 4 -> "4" [] d = 5 -> "5" [] d = 6 -> "6" [] d = 7 -> "7"
    [] d = 8 -> "8" [] d = 9 -> "9"

\* a number written with two or three decimal digits
TwoDigits(n) == << DigitChar(n \div 10), DigitChar(n % 10) >>

ThreeDigits(n) ==
  << DigitChar(n \div 100), DigitChar((n \div 10) % 10), DigitChar(n % 10) >>

HELLO == <<"H", "e", "l", "l", "o">>

HI == <<"H", "i">>

\* A line of lyric text "[mm:ss]text" or "[mm:ss.f..]text": fracDigits is 0
\* (no fraction), 2 or 3; frac is the number the fraction digits spell; the
\* text is core, which has no outer white space, between lead and trail.
LyricLineCases ==
  [ mm : {0, 1, 59, 99},
    ss : {0, 1, 2, 5, 59},
    fracDigits : {0},
    frac : {0},
    lead : {<<>>, <<" ">>},
    core : {HELLO, HI, <<"x">>, <<"a", " ", "]", "b">>},
    trail : {<<>>, <<" ", "\t">>, <<"\r">>} ]
  \cup
  [ mm : {0, 1, 59, 99},
    ss : {0, 1, 2, 5, 59},
    fracDigits : {2},
    frac : {0, 5, 50, 99},
    lead : {<<>>, <<" ">>},
    core : {HELLO, HI, <<"x">>, <<"a", " ", "]", "b">>},
    trail : {<<>>, <<" ", "\t">>, <<"\r">>} ]
  \cup
  [ mm : {0, 1, 59, 99},
    ss : {0, 1, 2, 5, 59},
    fracDigits : {3},
    frac : {0, 5, 50, 500, 999},
    lead : {<<>>, <<" ">>},
    core : {HELLO, HI, <<"x">>, <<"a", " ", "]", "b">>},
    trail : {<<>>, <<" ", "\t">>, <<"\r">>} ]

NoLine ==
  [mm |-> 0, ss |-> 0, fracDigits |-> 0, frac |-> 0, lead |-> <<>>,
   core |-> <<>>, trail |-> <<>>]

\* the text of a line
LineText(c) ==
  <<"[">> \o TwoDigits(c.mm) \o <<":">> \o TwoDigits(c.ss)
    \o (CASE c.fracDigits = 0 -> <<>>
          [] c.fracDigits = 2 -> <<".">> \o TwoDigits(c.frac)
          [] c.fracDigits = 3 -> <<".">> \o ThreeDigits(c.frac))
    \o <<"]">> \o c.lead \o c.core \o c.trail

\* the drive items the playlist builder runs draw from
BuilderItems ==
  { FileItem(A_MP3, AUDIO_MPEG), FileItem(B_TXT, TEXT_PLAIN),
    FileItem(C_FLAC, AUDIO_FLAC), FolderItem(SUB), FileItem(E_TXT, TEXT_AUDIO),
    FileItem(D_MP3, AUDIO_ONLY) }

\* the page contents: up to two items, and the three items of the example
BuilderValues ==
  {<<>>} \cup { <<x>> : x \in BuilderItems }
    \cup { <<x, y>> : x \in BuilderItems, y \in BuilderItems }
    \cup { << FileItem(A_MP3, AUDIO_MPEG), FileItem(B_TXT, TEXT_PLAIN),
              FileItem(C_FLAC, AUDIO_FLAC) >> }

\* complete listings: every page but the last carries a token
BuilderListings ==
  { <<Page(v, NoToken)>> : v \in BuilderValues }
    \cup { <<Page(v, Token), Page(w, NoToken)>> : v \in BuilderValues, w \in BuilderValues }
    \cup { Listing("/music") }

\* lines of lyric text, each with a one-letter text of its own
\* "[00:10]B"
LINE_B == << "[", "0", "0", ":", "1", "0", "]", "B" >>

\* "[00:05]A"
LINE_A == << "[", "0", "0", ":", "0", "5", "]", "A" >>

\* "[00:10]C"
LINE_C == << "[", "0", "0", ":", "1", "0", "]", "C" >>

\* "[00:05.00]D"
LINE_D == << "[", "0", "0", ":", "0", "5", ".", "0", "0", "]", "D" >>

\* "[00:04.999]E"
LINE_E == << "[", "0", "0", ":", "0", "4", ".", "9", "9", "9", "]", "E" >>

\* "no time"
LINE_NO_TIME == << "n", "o", " ", "t", "i", "m", "e" >>

\* "[00:01]   "
LINE_BLANK_TEXT == << "[", "0", "0", ":", "0", "1", "]", " ", " ", " " >>

\* ""
LINE_EMPTY == <<>>

\* "[0:01]F"
LINE_ONE_DIGIT == << "[", "0", ":", "0", "1", "]", "F" >>

\* "x[00:03]G"
LINE_PREFIXED == << "x", "[", "0", "0", ":", "0", "3", "]", "G" >>

\* "[00:0512]H"
LINE_NO_DOT == << "[", "0", "0", ":", "0", "5", "1", "2", "]", "H" >>

\* "[00:06.]I"
LINE_DOT_ONLY == << "[", "0", "0", ":", "0", "6", ".", "]", "I" >>

\* "[00:07.5]J"
LINE_SHORT_FRACTION == << "[", "0", "0", ":", "0", "7", ".", "5", "]", "J" >>

\* "[00:08] K\r"
LINE_CR == << "[", "0", "0", ":", "0", "8", "]", " ", "K", "\r" >>

LrcLineSamples ==
  { LINE_B, LINE_A, LINE_C, LINE_D,
    LINE_E, LINE_NO_TIME, LINE_BLANK_TEXT, LINE_EMPTY,
    LINE_ONE_DIGIT, LINE_PREFIXED, LINE_NO_DOT, LINE_DOT_ONLY,
    LINE_SHORT_FRACTION, LINE_CR }

\* the texts of the parser runs, as their lines: up to MaxLines different lines
LrcLineSequences ==
  UNION { { t \in [1..n -> LrcLineSamples] : \A i, j \in 1..n : t[i] = t[j] => i = j } :
          n \in 0..MaxLines }

\* the text a sequence of lines makes: the lines joined by "\n"
RECURSIVE JoinLines(_)
JoinLines(lines) ==
  IF lines = <<>> THEN <<>>
  ELSE IF Len(lines) = 1 THEN lines[1]
  ELSE lines[1] \o <<"\n">> \o JoinLines(Tail(lines))

\* the characters of the file names of the lyric name runs
NameChars == {"a", "b", ".", " "}

\* the file names: no blank at either end, no dot at the end
FileNames ==
  UNION { { n \in [1..k -> NameChars] :
              n[1] # " " /\ n[k] \notin {" ", "."} } : k \in 1..MaxNameLen }

(***************************************************************************)
(* Cover images and extractColorFromImage                                  *)
(***************************************************************************)
\* Colors are triples of channels; `rgb(${r}, ${g}, ${b})` writes one out.
\* 'rgb(239, 68, 68)'
DefaultColor == <<239, 68, 68>>

RED == <<255, 0, 0>>

BLACK == <<0, 0, 0>>

WHITE == <<255, 255, 255>>

ODD == <<1, 2, 4>>

Palette == {RED, BLACK, WHITE, ODD, DefaultColor}

\* An image element as extractColorFromImage reads it: its width and height,
\* naturalWidth, the picture drawImage paints on a canvas of that size (one
\* color on the left half, one on the right), and whether getImageData may
\* read a canvas the picture was drawn on (it may not when the picture came
\* from another origin without approval).
ImageOf(width, height, left, right, readable) ==
  [width |-> width, height |-> height, naturalWidth |-> width,
   left |-> left, right |-> right, readable |-> readable]

\* no picture: what a thumbnail request that fails leaves
NoImage == ImageOf(0, 0, BLACK, BLACK, FALSE)

\* the pixel of the canvas at column x, row y (from 0)
PixelAt(img, x, y) == IF 2 * x < img.width THEN img.left ELSE img.right

\* the conversion of the quotient n / d to the integer argument of
\* getImageData: the fraction is cut off
ToLong(n, d) == n \div d

\* imageData.data, pixel by pixel, row by row
ImageData(img, sx, sy, sw, sh) ==
  [ i \in 1..(sw * sh) |-> PixelAt(img, sx + ((i - 1) % sw), sy + ((i - 1) \div sw)) ]

\* the loop that adds up one channel
RECURSIVE SumChannel(_, _)
SumChannel(data, k) ==
  IF data = <<>> THEN 0 ELSE data[1][k] + SumChannel(Tail(data), k)

\* extractColorFromImage: the promise resolves with the average color or, when
\* there is no drawing context, with the default color; an exception in the
\* executor (getImageData on an empty rectangle or on a canvas it may not
\* read) rejects it.
extractColorFromImage(imgElement, ctx) ==
  LET sx == ToLong(imgElement.width, 4)
      sy == ToLong(imgElement.height, 4)
      sw == ToLong(imgElement.width, 2)
      sh == ToLong(imgElement.height, 2)
  IN IF ~ctx THEN [outcome |-> "fallback", color |-> DefaultColor]
     ELSE IF sw = 0 \/ sh = 0 \/ ~imgElement.readable
          THEN [outcome |-> "rejected", color |-> DefaultColor]
     ELSE LET data == ImageData(imgElement, sx, sy, sw, sh)
              pixelCount == Len(data)
          IN [outcome |-> "set",
              color |-> << SumChannel(data, 1) \div pixelCount,
                           SumChannel(data, 2) \div pixelCount,
                           SumChannel(data, 3) \div pixelCount >>]

\* handleImageLoad: the first revision tests naturalWidth, the later ones
\* the ref of the element, which is set while the element is rendered
handleImageLoad(v, img, ctx) ==
  IF v = "flag" /\ ~(img.naturalWidth > 0)
  THEN [outcome |-> "skip", color |-> DefaultColor]
  ELSE extractColorFromImage(img, ctx)

\* a cover load: the thumbnail asked for with src={currentThumbnail}
Cover(path, name) == [path |-> path, name |-> name]

\* the thumbnails of the drives: the "plain" drive has none
Thumbnail(d, c) ==
  CASE d = "covers" /\ c = Cover("/music", A_MP3) -> ImageOf(4, 4, RED, RED, TRUE)
    [] d = "covers" /\ c = Cover("/music", C_FLAC) -> ImageOf(4, 4, WHITE, BLACK, FALSE)
    [] OTHER -> NoImage

\* whether the image element carries crossOrigin="anonymous"
CrossOriginAnonymous(v) == v # "flag"

\* whether a cover load ends with an error event: there is no thumbnail, or
\* the element asks for approval that the picture's origin does not give
LoadFails(v, d, c) ==
  \/ Thumbnail(d, c) = NoImage
  \/ CrossOriginAnonymous(v) /\ ~Thumbnail(d, c).readable

\* whether the load callback is onLoadingComplete, which the Image component
\* calls after the load event once the picture is decoded, instead of onLoad
CallbackAfterDecode(v) == v = "flag"

\* The cover loads that still complete after src has changed: a changed src
\* ends the load of the old one, but a picture that is loaded and being
\* decoded still reaches onLoadingComplete.
KeptCovers(v, d, cs) ==
  IF CallbackAfterDecode(v) THEN { c \in cs : ~LoadFails(v, d, c) } ELSE {}

\* the image elements of the color runs
Images ==
  { ImageOf(w, h, l, r, readable) :
      w \in 1..MaxImageSize, h \in 1..MaxImageSize, l \in Palette, r \in Palette,
      readable \in BOOLEAN }

(***************************************************************************)
(* SearchModal: mapAbsolutePath                                            *)
(***************************************************************************)
\* largest number of pieces a parentReference path is put together from
MaxPieces == 4

\* whether sep stands in str at position k
OccursAt(str, sep, k) ==
  /\ k >= 1
  /\ k + Len(sep) - 1 <= Len(str)
  /\ SubSeq(str, k, k + Len(sep) - 1) = sep

\* String.prototype.split(sep) with a separator that is not empty
RECURSIVE Split(_, _)
Split(str, sep) ==
  IF \A k \in 1..Len(str) : ~OccursAt(str, sep, k) THEN <<str>>
  ELSE LET k == CHOOSE i \in 1..Len(str) :
                  OccursAt(str, sep, i) /\ \A j \in 1..(i - 1) : ~OccursAt(str, sep, j)
       IN <<SubSeq(str, 1, k - 1)>> \o Split(SubSeq(str, k + Len(sep), Len(str)), sep)

\* Array.prototype.join('/')
RECURSIVE Join(_)
Join(parts) ==
  IF Len(parts) = 0 THEN <<>>
  ELSE IF Len(parts) = 1 THEN parts[1]
  ELSE parts[1] \o <<"/">> \o Join(Tail(parts))

HexDigits == Digits \cup {"A", "B", "C", "D", "E", "F", "a", "b", "c", "d", "e", "f"}

\* the character a percent-encoding stands for, among those of the model
Unescaped(pair) ==
  CASE pair = <<"2", "0">> -> " "
    [] pair = <<"2", "3">> -> "#"
    [] pair = <<"2", "5">> -> "%"
    [] pair = <<"2", "6">> -> "&"
    [] pair = <<"2", "B">> -> "+"
    [] pair = <<"2", "F">> -> "/"
    [] pair = <<"3", "A">> -> ":"
    [] pair = <<"3", "F">> -> "?"
    [] OTHER -> "?"

\* whether decodeURIComponent throws URIError: a '%' that two hexadecimal
\* digits do not follow
Malformed(str) ==
  \E k \in 1..Len(str) :
    /\ str[k] = "%"
    /\ ~(k + 2 <= Len(str) /\ str[k + 1] \in HexDigits /\ str[k + 2] \in HexDigits)

\* decodeURIComponent of a string that is not malformed
RECURSIVE decodeURIComponent(_)
decodeURIComponent(str) ==
  IF str = <<>> THEN <<>>
  ELSE IF str[1] = "%"
       THEN <<Unescaped(SubSeq(str, 2, 3))>> \o decodeURIComponent(SubSeq(str, 4, Len(str)))
       ELSE <<str[1]>> \o decodeURIComponent(Tail(str))

ROOT_MARKER == <<"r", "o", "o", "t", ":">>

\* siteConfig.baseDirectory === '/' ? 'root:' : siteConfig.baseDirectory
SplitMarker(base) == IF base = <<"/">> THEN ROOT_MARKER ELSE base

\* the part of the split the result is made from
MarkedPart(absolutePath) == absolutePath[2]

\* mapAbsolutePath: the value it returns, or the URIError it throws
mapAbsolutePath(path, base) ==
  LET absolutePath == Split(path, SplitMarker(base)) IN
  IF Len(absolutePath) > 1
  THEN LET segments == Split(MarkedPart(absolutePath), <<"/">>) IN
       IF \E i \in 1..Len(segments) : Malformed(segments[i])
       THEN [outcome |-> "URIError", value |-> <<>>]
       ELSE [outcome |-> "value",
             value |-> Join([ i \in 1..Len(segments) |->
                               encodeURIComponent(decodeURIComponent(segments[i])) ])]
  ELSE [outcome |-> "value", value |-> <<>>]

\* the pieces the parentReference paths of the search runs are made of
PathPieces ==
  { <<"/", "d", "r", "i", "v", "e", "/">>, ROOT_MARKER, <<"/">>, <<"a">>, <<"#">>,
    <<"%", "2", "3">>, <<"/", "b">> }

RECURSIVE Concat(_)
Concat(parts) == IF parts = <<>> THEN <<>> ELSE Head(parts) \o Concat(Tail(parts))

ParentPaths ==
  { Concat(parts) : parts \in UNION { [1..n -> PathPieces] : n \in 0..MaxPieces } }

\* the values of siteConfig.baseDirectory of the search runs
BaseDirectories == { <<"/">>, <<"/", "b">> }

\* a search result: 'path' in item.parentReference, that path, and the name
SearchItem(hasPath, parentPath, name) ==
  [hasPath |-> hasPath, parentPath |-> parentPath, name |-> name]

\* a search result before its path is set
NotMapped == [outcome |-> "none", value |-> <<>>]

(***************************************************************************)
(* MarkdownImage of the markdown preview: the image fetched as a blob      *)
(***************************************************************************)
\* the effect runs (renders with a new src) followed
MaxEffects == 3

BLOB_PREFIX == << "b", "l", "o", "b", ":" >>

\* String.prototype.indexOf: 0-based, -1 if the text does not occur
IndexOf(str, sub) ==
  IF \E k \in 1..Len(str) : OccursAt(str, sub, k)
  THEN (CHOOSE k \in 1..Len(str) :
          OccursAt(str, sub, k) /\ \A j \in 1..(k - 1) : ~OccursAt(str, sub, j)) - 1
  ELSE -1

isUrlAbsolute(url) ==
  IndexOf(url, << ":", "/", "/" >>) > 0 \/ IndexOf(url, << "/", "/" >>) = 0

\* the src attributes of the images of a document: two relative ones and an
\* absolute one
ImageSources == { << "a" >>, << "b" >>, << "/", "/", "c" >> }

\* the folder of the document
PARENT_PATH == << "/", "d" >>

\* `/api/?path=${parentPath}/${src}&raw=true`, no token stored for the folder
ApiPath(parentPath, src) ==
  << "/", "a", "p", "i", "/", "?", "p", "a", "t", "h", "=" >> \o parentPath
    \o << "/" >> \o src \o << "&", "r", "a", "w", "=", "t", "r", "u", "e" >>

\* URL.createObjectURL: a blob URL that no earlier call has returned
createObjectURL(created) ==
  BLOB_PREFIX \o << << "1", "2", "3", "4", "5", "6", "7", "8", "9" >>[Cardinality(created) + 1] >>

\* the component before it is mounted: useState('') and useState(true)
Unrendered ==
  [mounted |-> FALSE, src |-> <<>>, imgDataUrl |-> <<>>, isLoading |-> TRUE,
   effects |-> <<>>, created |-> {}, revoked |-> {}]

\* The effect of a render with a new src: fetchImage runs up to its await,
\* and the cleanup returned closes over the imgDataUrl of that render.
RunEffect(m, src) ==
  LET absolute == isUrlAbsolute(src)
      effect == [src |-> src, imgDataUrl |-> m.imgDataUrl, active |-> TRUE,
                 settled |-> absolute]
  IN  [m EXCEPT !.mounted = TRUE,
                !.src = src,
                !.effects = Append(@, effect),
                !.imgDataUrl = IF absolute THEN src ELSE @,
                !.isLoading = ~absolute]

\* the cleanup of the latest effect run
Cleanup(m) ==
  LET n == Len(m.effects)
      imgDataUrl == m.effects[n].imgDataUrl
  IN  [m EXCEPT !.effects[n].active = FALSE,
                !.revoked = IF imgDataUrl # <<>> /\ StartsWith(imgDataUrl, BLOB_PREFIX)
                            THEN @ \cup {imgDataUrl} ELSE @]

\* fetchImage after its await, for the n-th effect run: the response is a
\* blob ("ok") or axios.get has thrown ("error")
fetchImage(m, n, outcome) ==
  LET effect == m.effects[n]
      objectUrl == createObjectURL(m.created)
      settled == [m EXCEPT !.effects[n].settled = TRUE]
  IN  IF ~effect.active THEN settled
      ELSE IF outcome = "ok"
      THEN [settled EXCEPT !.created = @ \cup {objectUrl},
                           !.imgDataUrl = objectUrl,
                           !.isLoading = FALSE]
      ELSE [settled EXCEPT !.imgDataUrl = ApiPath(PARENT_PATH, effect.src)]

(***************************************************************************)
(* State of one mounted AudioPreview                                       *)
(***************************************************************************)
VARIABLES
  variant,            \* which revision of the component runs
  mounted,            \* the component is mounted
  currentPath,        \* asPath up to its last '/'
  file,               \* the file prop: the preview's entry point
  folderData,         \* useProtectedSWRInfinite's data: <<>> while undefined
  size,               \* useProtectedSWRInfinite's size
  autoLoadDue,        \* the auto-load effect has a changed dependency (size)
  isLoadingPlaylist,  \* "flag" variant only
  playlist,
  currentFile,
  playerStatus,
  brokenThumbnail,
  lyrics,
  currentLyricIndex,
  hasLyrics,          \* "flag" variant only: "null", "true" or "false"
  showLyrics,         \* "tabs" variant only
  pending,            \* bag of the lyric requests in flight
  timers,             \* the active poll timers, each with the closure it reads
  position,           \* rap.currentTime, in milliseconds
  lrcLine,            \* the line of lyric text under test (parser runs only)
  lrcLines,           \* the lines of the lyric text under test (parser runs only)
  drive,              \* which drive the folders are on: "plain" or "covers"
  image,              \* the image element under test (color runs only)
  themeColor,
  covers,             \* the cover loads whose completion is still to come
  item,               \* the search result under test (search runs only)
  baseDirectory,      \* siteConfig.baseDirectory (search runs only)
  itemPath,           \* item['path'] as searchDriveItem sets it (search runs only)
  rap,                \* the media element: paused, and the events it has
                      \* still to dispatch (media runs only)
  markdownImage,      \* the MarkdownImage component of the markdown preview
                      \* (markdown runs only)
  misread,            \* the positions outside the playlist that a control has
                      \* read so far
  lastLoad,           \* what the step just taken did with a loaded cover:
                      \* "set", "fallback", "rejected" or "skip" after
                      \* handleImageLoad, "none" after any other
  lastTick            \* what the step just taken did to the active lyric index:
                      \* "set" or "skip" after updateLyric, "none" after any other

vars ==
  << variant, mounted, currentPath, file, folderData, size, autoLoadDue,
     isLoadingPlaylist, playlist, currentFile, playerStatus,
     brokenThumbnail, lyrics, currentLyricIndex, hasLyrics, showLyrics,
     pending, timers, position, lrcLine, lrcLines, drive, image,
     themeColor, covers, item, baseDirectory, itemPath, rap, misread,
     markdownImage, lastLoad, lastTick >>

Variants == {"flag", "tabs", "compact"}

\* enum PlayerState
PlayerState == {"Loading", "Ready", "Playing", "Paused"}

folderVars == << folderData, size, autoLoadDue, isLoadingPlaylist, playlist >>

lyricVars == << lyrics, currentLyricIndex, hasLyrics, showLyrics, pending, timers >>

\* the inputs of the runs of single functions, and the drive
searchVars == << item, baseDirectory, itemPath >>

inputVars == << lrcLine, lrcLines, image, drive, searchVars, rap, markdownImage >>

\* the media element is not followed
RapIdle == rap = [paused |-> TRUE, due |-> <<>>]

\* no markdown document is shown
MarkdownIdle == markdownImage = Unrendered

\* no search has run
SearchIdle ==
  /\ item = SearchItem(FALSE, <<>>, <<>>)
  /\ baseDirectory = <<"/">>
  /\ itemPath = NotMapped

(***************************************************************************)
(* Effects                                                                 *)
(***************************************************************************)
\* mutant: the effect returns no cleanup
NoTimerCleared(ts) == {}

\* the cleanup of the lyric sync effect: clearInterval(intervalId)
ClearedTimers(ts) == ts

\* The lyric sync effect, re-run because lyrics or currentLyricIndex was set:
\* the previous run's cleanup, then setInterval unless there are no lyrics.
SyncEffect(ts, newLyrics, newIndex) ==
  (ts \ ClearedTimers(ts)) \cup
    (IF newLyrics = <<>> THEN {} ELSE {[lyrics |-> newLyrics, index |-> newIndex]})

\* The request fetchLyrics sends for a file name under a path.
LyricRequest(path, fileName) ==
  Request(path, encodeURIComponent(LrcFileName(fileName)))

\* fetchLyrics up to its await: the state is reset and the request is sent.
StartFetchLyrics(path, fileName) ==
  /\ lyrics' = <<>>
  /\ currentLyricIndex' = -1
  /\ hasLyrics' = (IF variant = "flag" THEN "null" ELSE hasLyrics)
  /\ showLyrics' = FALSE
  /\ pending' = pending (+) SetToBag({LyricRequest(path, fileName)})
  /\ timers' = SyncEffect(timers, <<>>, -1)

CanFetch == BagCardinality(pending) < MaxPending

\* The cover loads after a render with a file name and a path: the image
\* element starts a load when it is newly rendered or its src has changed.
CoversAfter(path, name, broken) ==
  IF broken
  THEN {}
  ELSE IF brokenThumbnail \/ Cover(path, name) # Cover(currentPath, currentFile.name)
       THEN KeptCovers(variant, drive, covers) \cup {Cover(path, name)}
       ELSE covers

\* a step that is not a call of updateLyric
Quiet == lastTick' = "none" /\ UNCHANGED inputVars

NoTick == Quiet /\ UNCHANGED misread

\* a step in which no cover load starts or ends
NoCover == lastLoad' = "none" /\ UNCHANGED << themeColor, covers >>

(***************************************************************************)
(* Init                                                                    *)
(***************************************************************************)
\* the first render of the component on a drive, opened on one of the
\* entry points
InitOpened(d, entries) ==
  /\ variant \in Variants
  /\ mounted = TRUE
  /\ \E e \in entries :
       /\ currentPath = e.path
       /\ file = e.file
       /\ currentFile = e.file
       /\ pending = SetToBag({LyricRequest(e.path, e.file.name)})
  /\ folderData = <<>>
  /\ size = 1
  /\ autoLoadDue = FALSE
  /\ isLoadingPlaylist = TRUE
  /\ playlist = <<>>
  /\ playerStatus = "Loading"
  /\ brokenThumbnail = FALSE
  /\ lyrics = <<>>
  /\ currentLyricIndex = -1
  /\ hasLyrics = "null"
  /\ showLyrics = FALSE
  /\ timers = {}
  /\ position = 0
  /\ lrcLine = NoLine
  /\ lrcLines = <<>>
  /\ lastTick = "none"
  /\ misread = {}
  /\ drive = d
  /\ image = NoImage
  /\ SearchIdle
  /\ themeColor = DefaultColor
  /\ covers = {Cover(currentPath, currentFile.name)}
  /\ lastLoad = "none"

InitDrive(d) == InitOpened(d, ListedEntryPoints)

Init == InitDrive("plain") /\ RapIdle /\ MarkdownIdle

(***************************************************************************)
(* Track selection                                                         *)
(***************************************************************************)
\* mutant: the lyric effect does not depend on the name of the current file
handlePlaylistItemClickNoRefetch(fileItem) ==
  /\ currentFile' = fileItem
  /\ brokenThumbnail' = FALSE
  /\ playerStatus' = "Loading"
  /\ covers' = CoversAfter(currentPath, fileItem.name, FALSE)
  /\ lastLoad' = "none"
  /\ UNCHANGED << lyricVars, position, themeColor >>

\* handlePlaylistItemClick(fileItem)(), with the effects of the re-render:
\* the lyric effect runs when currentFile.name changed, the new source
\* starts at position 0, and the image element loads the new cover.
handlePlaylistItemClick(fileItem) ==
  /\ currentFile' = fileItem
  /\ brokenThumbnail' = FALSE
  /\ playerStatus' = "Loading"
  /\ covers' = CoversAfter(currentPath, fileItem.name, FALSE)
  /\ lastLoad' = "none"
  /\ UNCHANGED themeColor
  /\ IF fileItem.name # currentFile.name
     THEN /\ StartFetchLyrics(currentPath, fileItem.name)
          /\ position' = 0
     ELSE UNCHANGED << lyricVars, position >>

\* a click on the i-th row of the playlist
PlaylistClick(i) ==
  /\ mounted
  /\ NoTick
  /\ i \in 1..Len(playlist)
  /\ variant = "flag" => Len(playlist) > 1
  /\ playlist[i].name # currentFile.name => CanFetch
  /\ handlePlaylistItemClick(playlist[i])
  /\ UNCHANGED << variant, mounted, currentPath, file, folderVars >>

\* whether the onClick of the Previous button tests currentIndex > 0
\* before it reads the playlist
PreviousGuarded(v) == v # "compact"

\* The Previous button: rendered when the playlist has more than one entry,
\* disabled at index 0.  It reads the playlist at currentIndex - 1; reading
\* .file of the undefined entry outside the playlist throws TypeError and the
\* handler sets nothing.
Previous ==
  /\ mounted
  /\ Quiet
  /\ Len(playlist) > 1
  /\ LET currentIndex == FindIndex(playlist, currentFile.name) IN
       /\ currentIndex # 0
       /\ PreviousGuarded(variant) => currentIndex > 0
       /\ IF currentIndex - 1 \in 0..(Len(playlist) - 1)
          THEN /\ CanFetch
               /\ handlePlaylistItemClick(playlist[currentIndex])
               /\ UNCHANGED misread
          ELSE /\ misread' = misread \cup {currentIndex - 1}
               /\ NoCover
               /\ UNCHANGED << currentFile, brokenThumbnail, playerStatus,
                               lyricVars, position >>
  /\ UNCHANGED << variant, mounted, currentPath, file, folderVars >>

\* the Next button: rendered when the playlist has more than one entry,
\* disabled at the last index
NextTrack ==
  /\ mounted
  /\ NoTick
  /\ Len(playlist) > 1
  /\ LET currentIndex == FindIndex(playlist, currentFile.name) IN
       /\ currentIndex # Len(playlist) - 1
       /\ currentIndex < Len(playlist) - 1
       /\ playlist[currentIndex + 2].name # currentFile.name => CanFetch
       /\ handlePlaylistItemClick(playlist[currentIndex + 2])
  /\ UNCHANGED << variant, mounted, currentPath, file, folderVars >>


(***************************************************************************)
(* Media element events                                                    *)
(***************************************************************************)
\* the events the media element emits
MediaEvents ==
  {"canplay", "play", "playing", "pause", "seeking", "waiting", "error",
   "volumechange"}

\* the events the variant assigns a handler to (rap.on<event> = ...)
Handled(v) ==
  IF v = "compact" THEN {"canplay", "pause", "play", "waiting"}
  ELSE MediaEvents

\* the status the handler of a media event sets
StatusAfter(event, status) ==
  CASE event = "canplay" -> "Ready"
    [] event = "play" -> "Playing"
    [] event = "playing" -> "Playing"
    [] event = "pause" -> "Paused"
    [] event = "seeking" -> "Loading"
    [] event = "waiting" -> "Loading"
    [] event = "error" -> "Paused"
    [] event = "volumechange" -> status

\* A media event other than ended; an event without a handler changes nothing
\* of the component.  A seeking event comes with the position sought.
MediaEvent(event, time) ==
  /\ mounted
  /\ NoTick
  /\ NoCover
  /\ playerStatus' =
       (IF event \in Handled(variant) THEN StatusAfter(event, playerStatus)
        ELSE playerStatus)
  /\ position' = (IF event = "seeking" THEN time ELSE position)
  /\ UNCHANGED << variant, mounted, currentPath, file, folderVars, currentFile,
                  brokenThumbnail, lyricVars >>

\* whether rap.onended has an else branch that pauses
EndedPauses(v) == v # "compact"

\* rap.onended; the event comes when the position has reached the end
Ended ==
  /\ mounted
  /\ NoTick
  /\ LET currentIndex == FindIndex(playlist, currentFile.name) IN
       IF currentIndex < Len(playlist) - 1
       THEN /\ playlist[currentIndex + 2].name # currentFile.name => CanFetch
            /\ handlePlaylistItemClick(playlist[currentIndex + 2])
       ELSE /\ playerStatus' =
                 (IF EndedPauses(variant) THEN "Paused" ELSE playerStatus)
            /\ position' = Duration
            /\ NoCover
            /\ UNCHANGED << currentFile, brokenThumbnail, lyricVars >>
  /\ UNCHANGED << variant, mounted, currentPath, file, folderVars >>

\* playback or a seek moves rap.currentTime; no handler of the component runs
Playback(time) ==
  /\ mounted
  /\ NoTick
  /\ NoCover
  /\ time # position
  /\ position' = time
  /\ UNCHANGED << variant, mounted, currentPath, file, folderVars, currentFile,
                  playerStatus, brokenThumbnail, lyricVars >>

\* The media element starts on a new src with autoPlay: it dispatches
\* canplay and, playing by itself, play and playing.
LoadSource == [paused |-> FALSE, due |-> <<"canplay", "play", "playing">>]

\* A click on the i-th row of the playlist, with the media element: src
\* changes with the name of the current file, and the element starts on a new
\* src only.
RowClick(i) ==
  /\ mounted
  /\ i \in 1..Len(playlist)
  /\ variant = "flag" => Len(playlist) > 1
  /\ playlist[i].name # currentFile.name => CanFetch
  /\ handlePlaylistItemClick(playlist[i])
  /\ rap' = (IF playlist[i].name # currentFile.name THEN LoadSource ELSE rap)
  /\ lastTick' = "none"
  /\ UNCHANGED misread
  /\ UNCHANGED << variant, mounted, currentPath, file, folderVars, lrcLine,
                  lrcLines, image, drive, searchVars, markdownImage >>

\* the media element dispatches the next event and its handler runs
Dispatch ==
  /\ mounted
  /\ rap.due # <<>>
  /\ rap' = [rap EXCEPT !.due = Tail(rap.due)]
  /\ playerStatus' =
       (IF Head(rap.due) \in Handled(variant)
        THEN StatusAfter(Head(rap.due), playerStatus) ELSE playerStatus)
  /\ lastTick' = "none"
  /\ UNCHANGED misread
  /\ NoCover
  /\ UNCHANGED << variant, mounted, currentPath, file, folderVars, currentFile,
                  brokenThumbnail, lyricVars, position, lrcLine, lrcLines,
                  image, drive, searchVars, markdownImage >>

\* The player's own controls and the network act on the element: pause,
\* play, and a stall of the playing element that ends.
ElementChange(kind) ==
  /\ mounted
  /\ rap.due = <<>>
  /\ \/ /\ kind = "pause"
        /\ ~rap.paused
        /\ rap' = [paused |-> TRUE, due |-> <<"pause">>]
     \/ /\ kind = "play"
        /\ rap.paused
        /\ rap' = [paused |-> FALSE, due |-> <<"play", "playing">>]
     \/ /\ kind = "stall"
        /\ ~rap.paused
        /\ rap' = [paused |-> FALSE, due |-> <<"waiting", "canplay", "playing">>]
  /\ lastTick' = "none"
  /\ UNCHANGED misread
  /\ NoCover
  /\ UNCHANGED << variant, mounted, currentPath, file, folderVars, currentFile,
                  playerStatus, brokenThumbnail, lyricVars, position, lrcLine,
                  lrcLines, image, drive, searchVars, markdownImage >>

\* a cover failure that also puts the theme color back to 'rgb(239, 68, 68)'
ThumbnailErrorResetsColor ==
  /\ mounted
  /\ NoTick
  /\ ~brokenThumbnail
  /\ Cover(currentPath, currentFile.name) \in covers
  /\ LoadFails(variant, drive, Cover(currentPath, currentFile.name))
  /\ brokenThumbnail' = TRUE
  /\ covers' = CoversAfter(currentPath, currentFile.name, TRUE)
  /\ lastLoad' = "none"
  /\ themeColor' = DefaultColor
  /\ UNCHANGED << variant, mounted, currentPath, file, folderVars, currentFile,
                  playerStatus, lyricVars, position >>

\* the load of the current cover fails: onError={() => setBrokenThumbnail(true)};
\* the image is rendered only while the flag is clear
ThumbnailError ==
  /\ mounted
  /\ NoTick
  /\ ~brokenThumbnail
  /\ Cover(currentPath, currentFile.name) \in covers
  /\ LoadFails(variant, drive, Cover(currentPath, currentFile.name))
  /\ brokenThumbnail' = TRUE
  /\ covers' = CoversAfter(currentPath, currentFile.name, TRUE)
  /\ lastLoad' = "none"
  /\ UNCHANGED themeColor
  /\ UNCHANGED << variant, mounted, currentPath, file, folderVars, currentFile,
                  playerStatus, lyricVars, position >>

\* A cover load ends with a picture and the load callback runs
\* handleImageLoad on the image element, which shows that picture.
CoverLoaded(c, ctx) ==
  /\ mounted
  /\ NoTick
  /\ ~brokenThumbnail
  /\ c \in covers
  /\ ~LoadFails(variant, drive, c)
  /\ covers' = covers \ {c}
  /\ LET r == handleImageLoad(variant, Thumbnail(drive, c), ctx) IN
       /\ themeColor' = (IF r.outcome \in {"set", "fallback"} THEN r.color ELSE themeColor)
       /\ lastLoad' = r.outcome
  /\ UNCHANGED << variant, mounted, currentPath, file, folderVars, currentFile,
                  playerStatus, brokenThumbnail, lyricVars, position >>

(***************************************************************************)
(* Lyric fetch completion and lyric sync                                   *)
(***************************************************************************)
\* what fetchLyrics does after its await, per variant
LyricResult(v, outcome, parsedLyrics) ==
  CASE v = "flag" ->
         IF outcome = "ok"
         THEN [setLyrics |-> TRUE, lyrics |-> parsedLyrics,
               hasLyrics |-> IF Len(parsedLyrics) > 0 THEN "true" ELSE "false",
               showLyrics |-> FALSE]
         ELSE [setLyrics |-> FALSE, lyrics |-> <<>>, hasLyrics |-> "false",
               showLyrics |-> FALSE]
    [] v = "tabs" ->
         IF outcome = "ok" /\ Len(parsedLyrics) > 0
         THEN [setLyrics |-> TRUE, lyrics |-> parsedLyrics, hasLyrics |-> "keep",
               showLyrics |-> TRUE]
         ELSE [setLyrics |-> FALSE, lyrics |-> <<>>, hasLyrics |-> "keep",
               showLyrics |-> FALSE]
    [] v = "compact" ->
         IF outcome = "ok"
         THEN [setLyrics |-> TRUE, lyrics |-> parsedLyrics, hasLyrics |-> "keep",
               showLyrics |-> FALSE]
         ELSE [setLyrics |-> FALSE, lyrics |-> <<>>, hasLyrics |-> "keep",
               showLyrics |-> FALSE]

\* whether the continuation of fetchLyrics commits for a request: the code
\* holds no check of the request against the current track
Commits(req) == TRUE

\* A lyric request ends and the continuation of fetchLyrics runs.  On an
\* unmounted component the state setters do nothing.
LyricDone(req, outcome) ==
  /\ NoTick
  /\ NoCover
  /\ BagIn(req, pending)
  /\ outcome \in Outcomes(req)
  /\ pending' = pending (-) SetToBag({req})
  /\ IF mounted /\ Commits(req)
     THEN LET r == LyricResult(variant, outcome,
                               IF outcome = "ok" THEN parseLRC(LrcText(req)) ELSE <<>>)
          IN /\ lyrics' = (IF r.setLyrics THEN r.lyrics ELSE lyrics)
             /\ hasLyrics' = (IF r.hasLyrics = "keep" THEN hasLyrics ELSE r.hasLyrics)
             /\ showLyrics' = (IF r.setLyrics /\ r.showLyrics THEN TRUE ELSE showLyrics)
             /\ timers' = (IF r.setLyrics
                           THEN SyncEffect(timers, r.lyrics, currentLyricIndex)
                           ELSE timers)
     ELSE UNCHANGED << lyrics, hasLyrics, showLyrics, timers >>
  /\ UNCHANGED << variant, mounted, currentPath, file, folderVars, currentFile,
                  playerStatus, brokenThumbnail, currentLyricIndex,
                  position >>

\* updateLyric, called by the interval of a timer with the lyrics and the
\* index of the render that created it
updateLyric(timer) ==
  /\ mounted
  /\ timer \in timers
  /\ LET index == LyricIndex(variant, timer.lyrics, position) IN
       IF index # timer.index
       THEN /\ currentLyricIndex' = index
            /\ timers' = SyncEffect(timers, lyrics, index)
            /\ lastTick' = "set"
       ELSE /\ lastTick' = "skip"
            /\ UNCHANGED << currentLyricIndex, timers >>
  /\ UNCHANGED << inputVars, misread >>
  /\ NoCover
  /\ UNCHANGED << variant, mounted, currentPath, file, folderVars, currentFile,
                  playerStatus, brokenThumbnail, lyrics, hasLyrics,
                  showLyrics, pending, position >>

(***************************************************************************)
(* Folder pages                                                            *)
(***************************************************************************)
\* setSize(size + 1); the model stops counting at MaxSize
Grow(n) == IF n < MaxSize THEN n + 1 ELSE n

\* whether the playlist effect materializes the playlist from the pages
Materializes(v, responses, loading) ==
  IF v = "flag" THEN ~loading ELSE ~NextPresent(responses)

\* The paging hook has a further page to deliver: fewer pages than size are
\* loaded and the listing of the current path goes on.
PageDue ==
  /\ Len(folderData) < size
  /\ Len(folderData) < Len(Listing(currentPath))

\* The next page of the listing arrives: folderData changes, the auto-load
\* effect and the playlist effect run.
PageArrive ==
  /\ mounted
  /\ NoTick
  /\ NoCover
  /\ PageDue
  /\ LET responses == Append(folderData, Listing(currentPath)[Len(folderData) + 1])
         more == HasNext(variant, responses)
         loading == IF variant = "flag" /\ ~more THEN FALSE ELSE isLoadingPlaylist
     IN /\ folderData' = responses
        /\ size' = (IF more THEN Grow(size) ELSE size)
        /\ autoLoadDue' = more
        /\ isLoadingPlaylist' = loading
        /\ playlist' = (IF Materializes(variant, responses, loading)
                        THEN BuildPlaylist(responses) ELSE playlist)
  /\ UNCHANGED << variant, mounted, currentPath, file, currentFile, playerStatus,
                  brokenThumbnail, lyricVars, position >>

\* The auto-load effect runs again because size, one of its dependencies,
\* changed while folderData is still the same.
AutoLoadAgain ==
  /\ mounted
  /\ NoTick
  /\ NoCover
  /\ autoLoadDue
  /\ folderData # <<>>
  /\ HasNext(variant, folderData)
  /\ size < MaxSize
  /\ size' = size + 1
  /\ UNCHANGED << variant, mounted, currentPath, file, folderData, autoLoadDue,
                  isLoadingPlaylist, playlist, currentFile, playerStatus,
                  brokenThumbnail, lyricVars, position >>

\* whether the lyric effect lists currentPath among its dependencies
RefetchOnPath(v) == v # "flag"

\* The route changes to a file of another folder while the component stays
\* mounted: asPath and the file prop change, the paging hook starts over for
\* the new key, and the lyric effect re-runs where it depends on currentPath.
FolderChange(entry) ==
  /\ mounted
  /\ NoTick
  /\ entry.path # currentPath
  /\ currentPath' = entry.path
  /\ file' = entry.file
  /\ folderData' = <<>>
  /\ size' = 1
  /\ autoLoadDue' = FALSE
  /\ covers' = CoversAfter(entry.path, currentFile.name, brokenThumbnail)
  /\ lastLoad' = "none"
  /\ UNCHANGED themeColor
  /\ IF RefetchOnPath(variant)
     THEN /\ CanFetch
          /\ StartFetchLyrics(entry.path, currentFile.name)
     ELSE UNCHANGED lyricVars
  /\ UNCHANGED << variant, mounted, isLoadingPlaylist, playlist, currentFile,
                  playerStatus, brokenThumbnail, position >>

\* The component unmounts: the cleanup of the lyric sync effect runs and the
\* image element is gone.
Unmount ==
  /\ mounted
  /\ NoTick
  /\ mounted' = FALSE
  /\ timers' = timers \ ClearedTimers(timers)
  /\ covers' = {}
  /\ lastLoad' = "none"
  /\ UNCHANGED themeColor
  /\ UNCHANGED << variant, currentPath, file, folderVars, currentFile, playerStatus,
                  brokenThumbnail, lyrics, currentLyricIndex,
                  hasLyrics, showLyrics, pending, position >>

(***************************************************************************)
(* Specification                                                           *)
(***************************************************************************)
Requests == { Request(p, n) : p \in Folders, n \in {A_LRC, C_LRC} }

Next ==
  \/ \E i \in 1..3 : PlaylistClick(i)
  \/ Previous
  \/ NextTrack
  \/ Ended
  \/ \E event \in MediaEvents, time \in Positions : MediaEvent(event, time)
  \/ \E time \in Positions : Playback(time)
  \/ ThumbnailError
  \/ \E req \in Requests, outcome \in {"ok", "notok", "reject"} : LyricDone(req, outcome)
  \/ \E timer \in timers : updateLyric(timer)
  \/ PageArrive
  \/ AutoLoadAgain
  \/ \E entry \in EntryPoints : FolderChange(entry)
  \/ Unmount

Spec == Init /\ [][Next]_vars

\* The cover loads on a drive with thumbnails, with track selection, lyric
\* requests, folder pages, route changes and unmount around them.
InitCover == InitDrive("covers") /\ RapIdle /\ MarkdownIdle

NextCover ==
  \/ \E i \in 1..3 : PlaylistClick(i)
  \/ Previous
  \/ NextTrack
  \/ Ended
  \/ ThumbnailError
  \/ \E c \in covers, ctx \in BOOLEAN : CoverLoaded(c, ctx)
  \/ \E req \in Requests, outcome \in {"ok", "notok", "reject"} : LyricDone(req, outcome)
  \/ PageArrive
  \/ \E entry \in EntryPoints : FolderChange(entry)
  \/ Unmount

SpecCover == InitCover /\ [][NextCover]_vars

\* The folder pages with no user at work: the pages arrive, the effects run,
\* the lyric request ends and the media element reports; every page the
\* paging hook has asked for arrives in the end.
NextPages ==
  \/ PageArrive
  \/ AutoLoadAgain
  \/ \E req \in Requests, outcome \in {"ok", "notok", "reject"} : LyricDone(req, outcome)
  \/ \E event \in MediaEvents, time \in Positions : MediaEvent(event, time)
  \/ ThumbnailError

\* The component with its media element: the element starts on the src of
\* the file the preview was opened on.
InitMedia == InitDrive("plain") /\ rap = LoadSource /\ MarkdownIdle

NextMedia ==
  \/ \E i \in 1..3 : RowClick(i)
  \/ Dispatch
  \/ \E kind \in {"pause", "play", "stall"} : ElementChange(kind)
  \/ \E req \in Requests, outcome \in {"ok", "notok", "reject"} : LyricDone(req, outcome)
  \/ PageArrive

SpecMedia == InitMedia /\ [][NextMedia]_vars

\* The controls of the player, with the preview opened on a track of the
\* playlist or on d.mp3, a file of the folder that the playlist leaves out.
ControlEntryPoints ==
  { [path |-> "/music", file |-> FileItem(A_MP3, AUDIO_MPEG)],
    [path |-> "/music", file |-> FileItem(D_MP3, AUDIO_ONLY)] }

InitControls == InitOpened("plain", ControlEntryPoints) /\ RapIdle /\ MarkdownIdle

NextControls ==
  \/ \E i \in 1..3 : PlaylistClick(i)
  \/ Previous
  \/ NextTrack
  \/ Ended
  \/ \E req \in BagToSet(pending), outcome \in {"ok", "notok", "reject"} :
        LyricDone(req, outcome)
  \/ PageArrive

SpecControls == InitControls /\ [][NextControls]_vars

\* One folder: track switches, playback, lyric requests that end and poll
\* ticks, with the pages of the folder arriving.
NextTracks ==
  \/ \E i \in 1..3 : PlaylistClick(i)
  \/ Previous
  \/ NextTrack
  \/ Ended
  \/ \E time \in Positions : Playback(time)
  \/ \E req \in Requests, outcome \in {"ok", "notok", "reject"} : LyricDone(req, outcome)
  \/ \E timer \in timers : updateLyric(timer)
  \/ PageArrive

SpecTracks == Init /\ [][NextTracks]_vars

SpecPages == Init /\ [][NextPages]_vars /\ WF_vars(PageArrive)


(***************************************************************************)
(* Runs of the parser and of the playlist builder alone                    *)
(***************************************************************************)
\* the rest of the component, at rest
AtRest ==
  /\ variant = "flag"
  /\ mounted = TRUE
  /\ currentPath = "/music"
  /\ file = FileItem(A_MP3, AUDIO_MPEG)
  /\ currentFile = FileItem(A_MP3, AUDIO_MPEG)
  /\ size = 1
  /\ autoLoadDue = FALSE
  /\ playerStatus = "Loading"
  /\ brokenThumbnail = FALSE
  /\ currentLyricIndex = -1
  /\ showLyrics = FALSE
  /\ pending = EmptyBag
  /\ timers = {}
  /\ position = 0
  /\ lastTick = "none"
  /\ misread = {}
  /\ drive = "plain"
  /\ themeColor = DefaultColor
  /\ covers = {}
  /\ lastLoad = "none"

InitParse ==
  /\ AtRest
  /\ image = NoImage
  /\ SearchIdle
  /\ RapIdle
  /\ MarkdownIdle
  /\ lrcLine \in LyricLineCases
  /\ lrcLines = <<>>
  /\ lyrics = <<>>
  /\ hasLyrics = "null"
  /\ folderData = <<>>
  /\ isLoadingPlaylist = TRUE
  /\ playlist = <<>>

\* fetchLyrics after response.text(): the text is parsed and committed
ParseResponse ==
  /\ hasLyrics = "null"
  /\ LET r == LyricResult(variant, "ok", parseLRC(LineText(lrcLine))) IN
       /\ lyrics' = r.lyrics
       /\ hasLyrics' = r.hasLyrics
  /\ UNCHANGED << variant, mounted, currentPath, file, folderVars, currentFile,
                  playerStatus, brokenThumbnail, currentLyricIndex, showLyrics,
                  pending, timers, position, inputVars, lastTick, misread >>
  /\ NoCover

SpecParse == InitParse /\ [][ParseResponse]_vars

InitBuild ==
  /\ AtRest
  /\ image = NoImage
  /\ SearchIdle
  /\ RapIdle
  /\ MarkdownIdle
  /\ lrcLine = NoLine
  /\ lrcLines = <<>>
  /\ lyrics = <<>>
  /\ hasLyrics = "null"
  /\ folderData \in BuilderListings
  /\ isLoadingPlaylist = TRUE
  /\ playlist = <<>>

\* the auto-load effect and the playlist effect on a complete listing
PlaylistEffect ==
  /\ isLoadingPlaylist
  /\ ~HasNext(variant, folderData)
  /\ isLoadingPlaylist' = FALSE
  /\ playlist' = (IF Materializes(variant, folderData, FALSE)
                  THEN BuildPlaylist(folderData) ELSE playlist)
  /\ UNCHANGED << variant, mounted, currentPath, file, folderData, size,
                  autoLoadDue, currentFile, playerStatus, brokenThumbnail,
                  lyricVars, position, inputVars, lastTick, misread >>
  /\ NoCover

SpecBuild == InitBuild /\ [][PlaylistEffect]_vars

InitLrc ==
  /\ AtRest
  /\ image = NoImage
  /\ SearchIdle
  /\ RapIdle
  /\ MarkdownIdle
  /\ lrcLine = NoLine
  /\ lrcLines \in LrcLineSequences
  /\ lyrics = <<>>
  /\ hasLyrics = "null"
  /\ folderData = <<>>
  /\ isLoadingPlaylist = TRUE
  /\ playlist = <<>>

\* fetchLyrics after response.text() on a text of several lines
ParseText ==
  /\ hasLyrics = "null"
  /\ LET r == LyricResult(variant, "ok", parseLRC(JoinLines(lrcLines))) IN
       /\ lyrics' = r.lyrics
       /\ hasLyrics' = r.hasLyrics
  /\ UNCHANGED << variant, mounted, currentPath, file, folderVars, currentFile,
                  playerStatus, brokenThumbnail, currentLyricIndex, showLyrics,
                  pending, timers, position, inputVars, lastTick, misread >>
  /\ NoCover

SpecLrc == InitLrc /\ [][ParseText]_vars

\* a folder whose listing holds an audio file of any name, opened on it,
\* before the lyric effect has run
InitName ==
  /\ variant \in Variants
  /\ mounted = TRUE
  /\ currentPath = "/music"
  /\ \E name \in FileNames :
       /\ file = FileItem(name, AUDIO_MPEG)
       /\ currentFile = FileItem(name, AUDIO_MPEG)
  /\ folderData = <<>>
  /\ size = 1
  /\ autoLoadDue = FALSE
  /\ isLoadingPlaylist = TRUE
  /\ playlist = <<>>
  /\ playerStatus = "Loading"
  /\ brokenThumbnail = FALSE
  /\ lyrics = <<>>
  /\ currentLyricIndex = -1
  /\ hasLyrics = "null"
  /\ showLyrics = FALSE
  /\ pending = EmptyBag
  /\ timers = {}
  /\ position = 0
  /\ lrcLine = NoLine
  /\ lrcLines = <<>>
  /\ lastTick = "none"
  /\ misread = {}
  /\ drive = "plain"
  /\ image = NoImage
  /\ SearchIdle
  /\ RapIdle
  /\ MarkdownIdle
  /\ themeColor = DefaultColor
  /\ covers = {Cover(currentPath, currentFile.name)}
  /\ lastLoad = "none"

\* the lyric effect of the first render: fetchLyrics up to its await
LyricEffect ==
  /\ pending = EmptyBag
  /\ NoTick
  /\ NoCover
  /\ StartFetchLyrics(currentPath, currentFile.name)
  /\ UNCHANGED << variant, mounted, currentPath, file, folderVars, currentFile,
                  playerStatus, brokenThumbnail, position >>

SpecName == InitName /\ [][LyricEffect]_vars

InitColor ==
  /\ AtRest
  /\ image \in Images
  /\ SearchIdle
  /\ RapIdle
  /\ MarkdownIdle
  /\ lrcLine = NoLine
  /\ lrcLines = <<>>
  /\ lyrics = <<>>
  /\ hasLyrics = "null"
  /\ folderData = <<>>
  /\ isLoadingPlaylist = TRUE
  /\ playlist = <<>>

\* the load callback on the image element under test
ImageLoad(ctx) ==
  /\ lastLoad = "none"
  /\ LET r == handleImageLoad(variant, image, ctx) IN
       /\ themeColor' = (IF r.outcome \in {"set", "fallback"} THEN r.color ELSE themeColor)
       /\ lastLoad' = r.outcome
  /\ UNCHANGED << variant, mounted, currentPath, file, folderVars, currentFile,
                  playerStatus, brokenThumbnail, lyricVars, position, inputVars,
                  covers, lastTick, misread >>

SpecColor == InitColor /\ [][\E ctx \in BOOLEAN : ImageLoad(ctx)]_vars

InitSearch ==
  /\ AtRest
  /\ image = NoImage
  /\ lrcLine = NoLine
  /\ lrcLines = <<>>
  /\ lyrics = <<>>
  /\ hasLyrics = "null"
  /\ folderData = <<>>
  /\ isLoadingPlaylist = TRUE
  /\ playlist = <<>>
  /\ item \in { SearchItem(TRUE, p, <<"a">>) : p \in ParentPaths }
               \cup { SearchItem(FALSE, <<>>, <<"a">>) }
  /\ baseDirectory \in BaseDirectories
  /\ itemPath = NotMapped
  /\ RapIdle
  /\ MarkdownIdle

\* searchDriveItem on one result: item['path'] is set from
\* parentReference.path, or to '' when the result has none
searchDriveItem ==
  /\ itemPath = NotMapped
  /\ itemPath' =
       (IF ~item.hasPath
        THEN [outcome |-> "value", value |-> <<>>]
        ELSE LET mapped == mapAbsolutePath(item.parentPath, baseDirectory) IN
             IF mapped.outcome = "value"
             THEN [outcome |-> "value",
                   value |-> mapped.value \o <<"/">> \o encodeURIComponent(item.name)]
             ELSE mapped)
  /\ UNCHANGED << variant, mounted, currentPath, file, folderVars, currentFile,
                  playerStatus, brokenThumbnail, lyricVars, position, lrcLine,
                  lrcLines, image, drive, item, baseDirectory, rap, markdownImage,
                  themeColor,
                  covers, lastLoad, lastTick, misread >>

SpecSearch == InitSearch /\ [][searchDriveItem]_vars

(***************************************************************************)
(* Runs of MarkdownImage alone                                             *)
(***************************************************************************)
\* the component is mounted on an image of the document
InitMarkdown ==
  /\ AtRest
  /\ image = NoImage
  /\ lrcLine = NoLine
  /\ lrcLines = <<>>
  /\ lyrics = <<>>
  /\ hasLyrics = "null"
  /\ folderData = <<>>
  /\ isLoadingPlaylist = TRUE
  /\ playlist = <<>>
  /\ SearchIdle
  /\ RapIdle
  /\ markdownImage \in { RunEffect(Unrendered, src) : src \in ImageSources }

audioVars ==
  << variant, mounted, currentPath, file, folderVars, currentFile,
     playerStatus, brokenThumbnail, lyricVars, position, lrcLine, lrcLines,
     image, drive, searchVars, rap, themeColor, covers, lastLoad, lastTick,
     misread >>

\* the document is re-rendered with another src for the image: the cleanup
\* of the latest effect run, then the effect again
SrcChange(src) ==
  /\ markdownImage.mounted
  /\ src # markdownImage.src
  /\ Len(markdownImage.effects) < MaxEffects
  /\ markdownImage' = RunEffect(Cleanup(markdownImage), src)
  /\ UNCHANGED audioVars

\* axios.get of the n-th effect run settles
ImageFetched(n, outcome) ==
  /\ n \in 1..Len(markdownImage.effects)
  /\ ~markdownImage.effects[n].settled
  /\ markdownImage' = fetchImage(markdownImage, n, outcome)
  /\ UNCHANGED audioVars

\* the component is unmounted: the cleanup of the latest effect run
UnmountImage ==
  /\ markdownImage.mounted
  /\ markdownImage' = [Cleanup(markdownImage) EXCEPT !.mounted = FALSE]
  /\ UNCHANGED audioVars

NextMarkdown ==
  \/ \E src \in ImageSources : SrcChange(src)
  \/ \E n \in 1..MaxEffects, outcome \in {"ok", "error"} : ImageFetched(n, outcome)
  \/ UnmountImage

SpecMarkdown == InitMarkdown /\ [][NextMarkdown]_vars


(***************************************************************************)
(* Properties                                                              *)
(***************************************************************************)
\* the file the component was opened on
OpenedOn == (CHOOSE e \in ListedEntryPoints : TRUE).file

\* the lyric file name of the tracks of the drive, written out
LrcNameOf(name) ==
  CASE name = A_MP3 -> A_LRC
    [] name = C_FLAC -> C_LRC
    [] OTHER -> <<>>

\* C1: stale-response discard.  Whatever the order in which lyric requests
\* end, the lyrics state never holds the lines parsed from the .lrc response
\* of a track other than the current one.
StaleLyricsDiscarded ==
  \A req \in LrcFiles :
    (req.name # LrcNameOf(currentFile.name) /\ parseLRC(LrcText(req)) # <<>>)
      => lyrics # parseLRC(LrcText(req))

\* the entries of the pages, in order, the last page's entries last
RECURSIVE EntriesOf(_)
EntriesOf(pages) ==
  IF pages = <<>> THEN <<>>
  ELSE EntriesOf(SubSeq(pages, 1, Len(pages) - 1)) \o pages[Len(pages)].value

\* the positions of the entries that are files with a MIME type "audio/..."
AudioPositions(entries) ==
  { j \in 1..Len(entries) :
      /\ entries[j].isFile
      /\ Len(entries[j].mimeType) >= 6
      /\ \A i \in 1..6 : entries[j].mimeType[i] = AUDIO_PREFIX[i] }

\* the audio entries of the pages, in the order of the pages
AudioEntriesOf(pages) ==
  LET entries == EntriesOf(pages)
      sel == AudioPositions(entries)
  IN [ k \in 1..Cardinality(sel) |->
         entries[CHOOSE j \in sel : Cardinality({m \in sel : m <= j}) = k] ]

\* C2: pagination completion.  Whenever the playlist is set to a new value,
\* the last fetched page carries no next-page token and the playlist holds the
\* audio entries of all fetched pages.
PlaylistOnlyWhenComplete ==
  [][ playlist' # playlist =>
        /\ ~NextPresent(folderData')
        /\ playlist' = AudioEntriesOf(folderData') ]_vars

\* C3: playlist filtering.  Once the playlist is built from a listing, it
\* holds exactly the entries that are files whose MIME type begins with
\* "audio/", in the order of the concatenated pages; an empty folder gives an
\* empty playlist.
PlaylistFiltering ==
  ~isLoadingPlaylist => playlist = AudioEntriesOf(folderData)

\* C3 witness: [a.mp3 audio/mpeg, b.txt text/plain, c.flac audio/flac] has
\* been built into [a.mp3, c.flac].
PlaylistFilteringWitness ==
  /\ ~isLoadingPlaylist
  /\ folderData = << Page(<< FileItem(A_MP3, AUDIO_MPEG), FileItem(B_TXT, TEXT_PLAIN),
                             FileItem(C_FLAC, AUDIO_FLAC) >>, NoToken) >>
  /\ playlist = << FileItem(A_MP3, AUDIO_MPEG), FileItem(C_FLAC, AUDIO_FLAC) >>

\* C4: end-of-track auto-advance.  With the current track at index i of the
\* playlist, an ended event selects the entry at i+1 and sets the state to
\* Loading when there is one; at the last index the state becomes Paused and
\* the current track stays.
EndedAdvancesOrPauses ==
  [][ Ended =>
        LET i == FindIndex(playlist, currentFile.name) IN
          i >= 0 =>
            IF Len(playlist) > i + 1
            THEN currentFile' = playlist[i + 2] /\ playerStatus' = "Loading"
            ELSE playerStatus' = "Paused" /\ currentFile' = currentFile ]_vars

\* C5: the playback state is one of the four states and follows the media
\* element's events: can-play sets Ready, play and playing set Playing, pause
\* sets Paused, seeking and waiting set Loading (from Playing or Paused),
\* volume-change leaves it unchanged.
StatusFollowsEvents ==
  /\ [](playerStatus \in {"Loading", "Ready", "Playing", "Paused"})
  /\ [][ /\ (\E time \in Positions : MediaEvent("canplay", time)) => playerStatus' = "Ready"
         /\ (\E time \in Positions : MediaEvent("play", time)) => playerStatus' = "Playing"
         /\ (\E time \in Positions : MediaEvent("playing", time)) => playerStatus' = "Playing"
         /\ (\E time \in Positions : MediaEvent("pause", time)) => playerStatus' = "Paused"
         /\ ((\E time \in Positions : MediaEvent("seeking", time)) /\ playerStatus \in {"Playing", "Paused"})
              => playerStatus' = "Loading"
         /\ ((\E time \in Positions : MediaEvent("waiting", time)) /\ playerStatus \in {"Playing", "Paused"})
              => playerStatus' = "Loading"
         /\ (\E time \in Positions : MediaEvent("volumechange", time)) => playerStatus' = playerStatus ]_vars

\* C6: track switching.  Every step that changes the current track (a
\* playlist click, Previous, Next or auto-advance) clears the broken-thumbnail
\* flag, sets the state to Loading, clears the lyrics and the active lyric
\* index and sends one more request for the new track's .lrc file.
TrackSwitchResets ==
  [][ currentFile'.name # currentFile.name =>
        /\ brokenThumbnail' = FALSE
        /\ playerStatus' = "Loading"
        /\ lyrics' = <<>>
        /\ currentLyricIndex' = -1
        /\ LET req == Request(currentPath, LrcNameOf(currentFile'.name)) IN
             CopiesIn(req, pending') = CopiesIn(req, pending) + 1 ]_vars

\* C6 witness: the track was switched to c.flac and its lyric request is out.
TrackSwitchWitness ==
  /\ currentFile.name = C_FLAC
  /\ currentFile # OpenedOn
  /\ playerStatus = "Loading"
  /\ lyrics = <<>>
  /\ BagIn(Request(currentPath, C_LRC), pending)

\* the index of the last line whose time is at or before the position, 0-based
LastLineAtOrBefore(lines, time) ==
  LET reached == { i \in 1..Len(lines) : lines[i].time <= time } IN
  IF reached = {} THEN -1
  ELSE (CHOOSE i \in reached : \A j \in reached : j <= i) - 1

\* C7: lyric sync.  A poll tick computes the index of the last lyric line
\* whose time is at or before the playback position, -1 if there is none, and
\* writes the active lyric index exactly when that differs from the index
\* reported before.
PollTickIndex ==
  [][ (\E timer \in timers : updateLyric(timer)) =>
        LET k == LastLineAtOrBefore(lyrics, position) IN
          /\ lyrics # <<>>
          /\ currentLyricIndex' = k
          /\ (lastTick' = "set") <=> (k # currentLyricIndex) ]_vars

\* C7 witness: a tick has written the index of the second of two lines with
\* equal times.
PollTickWitness ==
  /\ lastTick = "set"
  /\ lyrics = parseLRC(LRC_A)
  /\ position = 5000
  /\ currentLyricIndex = 2

\* C8: at most one poll timer is active, it reads the current lyric sequence,
\* and none is active while the lyric sequence is empty or after unmount.
OneCurrentTimer ==
  /\ Cardinality(timers) <= 1
  /\ \A timer \in timers : timer.lyrics = lyrics
  /\ (lyrics = <<>> \/ ~mounted) => timers = {}

\* C8 witness: a timer has ticked on lyrics that replaced others' place (the
\* index moved), and the component is unmounted with no timer left.
OneCurrentTimerWitness ==
  /\ ~mounted
  /\ lyrics # <<>>
  /\ currentLyricIndex >= 0
  /\ timers = {}

\* C9: current index invariant.  With a non-empty playlist exactly one entry
\* has the current file's name; with an empty playlist the current track is
\* the file the component was opened on (or the file prop of the route).
CurrentIndexInvariant ==
  IF playlist # <<>>
  THEN Cardinality({ i \in 1..Len(playlist) : playlist[i].name = currentFile.name }) = 1
  ELSE currentFile = OpenedOn \/ currentFile = file

\* the time a line of lyric text states, in milliseconds
StatedMilliseconds(c) ==
  (c.mm * 60 + c.ss) * 1000
    + (CASE c.fracDigits = 0 -> 0
         [] c.fracDigits = 2 -> c.frac * 10
         [] c.fracDigits = 3 -> c.frac)

\* C10: lyric parsing.  A line "[mm:ss]text" yields time mm*60+ss seconds, a
\* fraction of two or three digits adds its value (two digits padded with a
\* zero to milliseconds), and the text is the trimmed rest of the line.
ParsedLineTime ==
  hasLyrics # "null" =>
    lyrics = << [time |-> StatedMilliseconds(lrcLine), text |-> lrcLine.core] >>

\* C10 witness: "[01:02.500]Hello" has been parsed to 62.5 s, "Hello".
ParsedLineWitness ==
  /\ hasLyrics = "true"
  /\ lrcLine = [mm |-> 1, ss |-> 2, fracDigits |-> 3, frac |-> 500, lead |-> <<>>,
                core |-> HELLO, trail |-> <<>>]
  /\ lyrics = << [time |-> 62500, text |-> HELLO] >>

\* the line of the text under test that a lyric line was read from
SourceLine(l) ==
  CHOOSE k \in 1..Len(lrcLines) : \E i \in 1..Len(lrcLines[k]) : lrcLines[k][i] = l.text[1]

\* C11: lyric ordering.  The parser's output is sorted ascending by time, and
\* lines with equal times keep the order they have in the text.
LyricsSortedStable ==
  hasLyrics # "null" =>
    \A i, j \in 1..Len(lyrics) :
      i < j => /\ lyrics[i].time <= lyrics[j].time
               /\ lyrics[i].time = lyrics[j].time
                    => SourceLine(lyrics[i]) < SourceLine(lyrics[j])

\* C11 witness: "[00:10]B", "[00:05]A", "[00:10]C" has been parsed to A@5,
\* B@10, C@10.
LyricsSortedStableWitness ==
  /\ lrcLines = << LINE_B, LINE_A, LINE_C >>
  /\ lyrics = << [time |-> 5000, text |-> <<"A">>], [time |-> 10000, text |-> <<"B">>],
                 [time |-> 10000, text |-> <<"C">>] >>

\* a line of the form "[mm:ss]text", "[mm:ss.ff]text" or "[mm:ss.fff]text":
\* the position at which its text starts, 0 if it has not the form
TextStart(line) ==
  LET digit(i) == i <= Len(line) /\ line[i] \in {"0", "1", "2", "3", "4", "5", "6", "7", "8", "9"}
      is(i, c) == i <= Len(line) /\ line[i] = c
  IN IF ~(is(1, "[") /\ digit(2) /\ digit(3) /\ is(4, ":") /\ digit(5) /\ digit(6)) THEN 0
     ELSE IF is(7, "]") THEN 8
     ELSE IF is(7, ".") /\ digit(8) /\ digit(9) /\ is(10, "]") THEN 11
     ELSE IF is(7, ".") /\ digit(8) /\ digit(9) /\ digit(10) /\ is(11, "]") THEN 12
     ELSE 0

\* the lines of the text under test that have the form and a text that is
\* not blank
LinesWithLyric ==
  { k \in 1..Len(lrcLines) :
      /\ TextStart(lrcLines[k]) > 0
      /\ \E i \in TextStart(lrcLines[k])..Len(lrcLines[k]) :
           lrcLines[k][i] \notin {" ", "\t", "\r"} }

\* C12: the parser drops every line that has not the form "[mm:ss]text" or
\* "[mm:ss.fff]text" or whose text is blank, goes on with the lines after it,
\* and emits only lines with a non-empty text and a time of at least 0.
OnlyFormedLinesEmitted ==
  hasLyrics # "null" =>
    /\ Len(lyrics) = Cardinality(LinesWithLyric)
    /\ \A i \in 1..Len(lyrics) :
         /\ lyrics[i].text # <<>>
         /\ lyrics[i].time >= 0
         /\ SourceLine(lyrics[i]) \in LinesWithLyric

\* what the raw-file endpoint reads from the path of a request: each
\* percent-encoding is the character it stands for
RECURSIVE QueryDecoded(_)
QueryDecoded(str) ==
  IF str = <<>> THEN <<>>
  ELSE IF str[1] = "%" /\ Len(str) >= 3
       THEN << (CASE SubSeq(str, 2, 3) = <<"2", "0">> -> " "
                  [] SubSeq(str, 2, 3) = <<"2", "3">> -> "#"
                  [] SubSeq(str, 2, 3) = <<"2", "5">> -> "%"
                  [] SubSeq(str, 2, 3) = <<"2", "6">> -> "&"
                  [] SubSeq(str, 2, 3) = <<"2", "B">> -> "+"
                  [] SubSeq(str, 2, 3) = <<"2", "F">> -> "/"
                  [] SubSeq(str, 2, 3) = <<"3", "F">> -> "?"
                  [] OTHER -> "%") >> \o QueryDecoded(SubSeq(str, 4, Len(str)))
       ELSE <<str[1]>> \o QueryDecoded(Tail(str))

\* the last dot of a name that has characters after it, 0 if there is none
LastDot(name) ==
  LET dots == { k \in 1..(Len(name) - 1) : name[k] = "." } IN
  IF dots = {} THEN 0 ELSE CHOOSE k \in dots : \A j \in dots : j <= k

\* C13: lyric file resolution.  Every lyric request names, in the folder of
\* the current file, the current file's name with its extension replaced by
\* ".lrc", and never the audio file itself.
LyricRequestNamesLrc ==
  \A req \in BagToSet(pending) :
    /\ req.path = currentPath
    /\ QueryDecoded(req.name) # currentFile.name
    /\ LastDot(currentFile.name) > 0 =>
         QueryDecoded(req.name) =
           SubSeq(currentFile.name, 1, LastDot(currentFile.name) - 1) \o <<".", "l", "r", "c">>

\* C14: when, on the mounted component, the lyric request of the current
\* track ends with a non-OK
\* response or a rejection, the lyrics are empty, the active index is -1,
\* hasLyrics is false where the variant has it, and the playback state and the
\* current track stay as they are.
LyricFailureMeansNoLyrics ==
  [][ (mounted /\ \E outcome \in {"notok", "reject"} :
         LyricDone(Request(currentPath, LrcNameOf(currentFile.name)), outcome)) =>
        /\ lyrics' = <<>>
        /\ currentLyricIndex' = -1
        /\ variant = "flag" => hasLyrics' = "false"
        /\ playerStatus' = playerStatus
        /\ currentFile' = currentFile ]_vars

\* C15: an error event of the media element sets the playback state to
\* Paused, leaves the current track and the position alone and sends no
\* request.
MediaErrorPauses ==
  [][ (\E time \in Positions : MediaEvent("error", time)) =>
        /\ playerStatus' = "Paused"
        /\ currentFile' = currentFile
        /\ position' = position
        /\ pending' = pending ]_vars

\* C16: cancellation.  A lyric request that ends after the component was
\* unmounted, or that was sent for another folder path than the current one,
\* commits no lyric state; and no poll timer lives on through an unmount or a
\* change of the folder path.
CancelledOnUnmountAndFolderChange ==
  /\ [][ \A req \in BagToSet(pending), outcome \in {"ok", "notok", "reject"} :
           (LyricDone(req, outcome) /\ (~mounted \/ req.path # currentPath))
             => UNCHANGED << lyrics, currentLyricIndex, hasLyrics, showLyrics >> ]_vars
  /\ [][ (~mounted' \/ currentPath' # currentPath) => timers' \cap timers = {} ]_vars

\* the columns (or rows) of the centred half of a side of n pixels
CentredHalf(n) == { x \in 0..(n - 1) : x >= n \div 4 /\ x < (n \div 4) + (n \div 2) }

\* channel k of the truncated average of the picture over the centred half
\* of its width and of its height
CentredAverage(img, k) ==
  LET cols == CentredHalf(img.width)
      rows == Cardinality(CentredHalf(img.height))
      onLeft == Cardinality({ x \in cols : 2 * x < img.width })
      onRight == Cardinality(cols) - onLeft
  IN ((onLeft * img.left[k] + onRight * img.right[k]) * rows) \div (Cardinality(cols) * rows)

\* C18: color extraction.  With a drawing context, the extraction from a
\* readable N x N image of the one color (255, 0, 0) gives exactly
\* (255, 0, 0) for every N >= 1; and every extracted channel is the truncated
\* average of that channel over the centred half-width, half-height region and
\* lies in 0..255.
ExtractedColorIsCentredAverage ==
  /\ ( /\ lastLoad \notin {"none", "fallback"}
       /\ \E N \in 1..MaxImageSize : image = ImageOf(N, N, RED, RED, TRUE) )
       => (lastLoad = "set" /\ themeColor = RED)
  /\ lastLoad = "set" =>
       \A k \in 1..3 : /\ themeColor[k] \in 0..255
                        /\ themeColor[k] = CentredAverage(image, k)

\* C17: a stale cover is discarded.  When the load of the cover of a track
\* of the current folder ends while another track is the current one, the
\* theme color is not set from it.
StaleCoverDiscarded ==
  [][ \A c \in covers, ctx \in BOOLEAN :
        (CoverLoaded(c, ctx) /\ c.path = currentPath /\ c.name # currentFile.name)
          => themeColor' = themeColor ]_vars

\* C19: when the cover of the current track fails to load, the
\* broken-thumbnail flag is set, the color extraction is not run, the theme
\* color keeps the value it had, and the playback state and the current track
\* stay as they are.
ThumbnailFailureKeepsColor ==
  [][ (ThumbnailError \/ (~brokenThumbnail /\ brokenThumbnail')) =>
        /\ brokenThumbnail'
        /\ lastLoad' = "none"
        /\ themeColor' = themeColor
        /\ playerStatus' = playerStatus
        /\ currentFile' = currentFile ]_vars

\* a cover has failed after the theme color was taken from an earlier cover
ThumbnailFailureKeepsColorWitness ==
  /\ mounted
  /\ brokenThumbnail
  /\ lastLoad = "none"
  /\ themeColor = RED
  /\ currentFile.name = C_FLAC

\* C20: failures are handled where they happen.  A color extraction that
\* cannot read the pixels (no drawing context, a picture of another origin,
\* an empty sample region) ends with the fallback color or with the color
\* left as it was, and no load callback ends with a rejected promise that
\* nothing handles.
NoUnhandledRejection == lastLoad # "rejected"

\* C21: the playlist is rebuilt on a change of the folder path.  On the
\* mounted component a playlist with entries is the playlist of the current
\* folder path: all pages of that folder have been fetched, the last one
\* without a next-page token, and the entries are the audio entries of that
\* folder only.
PlaylistOfCurrentFolder ==
  (mounted /\ playlist # <<>>) =>
    /\ folderData = Listing(currentPath)
    /\ ~NextPresent(folderData)
    /\ playlist = AudioEntriesOf(Listing(currentPath))

MarkerPositions(path, base) ==
  { k \in 1..Len(path) :
      /\ k + Len(SplitMarker(base)) - 1 <= Len(path)
      /\ \A i \in 1..Len(SplitMarker(base)) : path[k + i - 1] = SplitMarker(base)[i] }

\* everything after the first occurrence of the marker
AfterFirstMarker(path, base) ==
  LET first == CHOOSE k \in MarkerPositions(path, base) :
                 \A j \in MarkerPositions(path, base) : k <= j
  IN SubSeq(path, first + Len(SplitMarker(base)), Len(path))

\* a path with each segment decoded and encoded again: a '/' stays, a
\* percent-encoding stays, any other character is encoded
RECURSIVE Recoded(_)
Recoded(str) ==
  IF str = <<>> THEN <<>>
  ELSE IF str[1] = "/" THEN <<"/">> \o Recoded(Tail(str))
  ELSE IF str[1] = "%" /\ Len(str) >= 3
       THEN SubSeq(str, 1, 3) \o Recoded(SubSeq(str, 4, Len(str)))
  ELSE (CASE str[1] = "#" -> <<"%", "2", "3">>
          [] str[1] = ":" -> <<"%", "3", "A">>
          [] OTHER -> <<str[1]>>) \o Recoded(Tail(str))

\* C23: mapAbsolutePath.  The path set on a search result is, before the
\* '/' and the name, everything after the first occurrence of the split
\* marker in parentReference.path with each segment decoded and encoded
\* again, also when the marker occurs again later, and the empty string when
\* the marker does not occur.
MapAbsolutePathAfterFirstMarker ==
  (itemPath # NotMapped /\ item.hasPath) =>
    /\ itemPath.outcome = "value"
    /\ itemPath.value =
         (IF MarkerPositions(item.parentPath, baseDirectory) = {} THEN <<>>
          ELSE Recoded(AfterFirstMarker(item.parentPath, baseDirectory)))
           \o <<"/">> \o encodeURIComponent(item.name)

\* C24: pagination asks for one page at a time.  The page count asked of
\* the paging hook is never more than the number of pages fetched plus one.
SizeAtMostFetchedPlusOne ==
  mounted => size <= Len(folderData) + 1

\* C25: Loading is left again.  While the state is Loading and the media
\* element is playing, the element has still to dispatch an event whose
\* handler sets another state; so the state does not stay Loading after a
\* playlist click, a click on the current track included.
LoadingIsLeft ==
  (mounted /\ playerStatus = "Loading" /\ ~rap.paused) =>
    \E k \in 1..Len(rap.due) :
      /\ rap.due[k] \in Handled(variant)
      /\ StatusAfter(rap.due[k], playerStatus) # "Loading"

\* C26: the controls stay inside the playlist.  Previous, Next and the ended
\* handler read no position outside 0..length-1 and select no undefined
\* entry, also when the current track is not in the playlist; Previous at the
\* first entry and Next at the last entry do nothing.
ControlsReadInsidePlaylist ==
  /\ misread = {}
  /\ \A i \in 1..Len(playlist) : playlist[i] \in {FileItem(A_MP3, AUDIO_MPEG), FileItem(C_FLAC, AUDIO_FLAC)}
  /\ currentFile \in { e.file : e \in ControlEntryPoints } \cup
                       { playlist[i] : i \in 1..Len(playlist) }
  /\ FindIndex(playlist, currentFile.name) = 0 => ~ENABLED Previous
  /\ (playlist # <<>> /\ FindIndex(playlist, currentFile.name) = Len(playlist) - 1)
       => ~ENABLED NextTrack

\* C27: hasLyrics agrees with the lyrics.  In the revision that keeps
\* hasLyrics, on the mounted component: it is true only with lyric lines,
\* false only without, and null only while the lyric request of the current
\* track is in flight.
HasLyricsConsistent ==
  (mounted /\ variant = "flag") =>
    /\ hasLyrics = "true" => lyrics # <<>>
    /\ hasLyrics = "false" => lyrics = <<>>
    /\ hasLyrics = "null" =>
         \E req \in BagToSet(pending) :
           req.name = encodeURIComponent(LrcFileName(currentFile.name))

\* C28: the active lyric index is -1 or an index of the lyrics: on the
\* mounted component -1 <= currentLyricIndex < lyrics.length.
LyricIndexInRange ==
  mounted => (currentLyricIndex >= -1 /\ currentLyricIndex < Len(lyrics))

\* the positions that tell the lines of a sequence apart: the start, and
\* for every line its time, the millisecond before and the millisecond after
ProbeTimes(lines) ==
  {0} \cup { lines[i].time + d : i \in 1..Len(lines), d \in {-1, 0, 1} }

\* C29: on a parsed (ascending-sorted) lyric sequence the two computations of
\* the active index agree at every playback position: the forward scan that
\* stops at the first line later than the position returns the index that
\* findLastIndex returns over the lines not later than the position.
ScanAgreesWithFindLastIndex ==
  \A time \in ProbeTimes(lyrics) :
    ForwardScan(lyrics, time, 1, -1) = FindLastIndex(lyrics, time)

\* three parsed lines, two of them at the same time, probed at that time
ScanAgreesWithFindLastIndexWitness ==
  /\ Len(lyrics) = 3
  /\ lyrics[1].time = lyrics[2].time
  /\ lyrics[2].time < lyrics[3].time
  /\ ForwardScan(lyrics, lyrics[1].time, 1, -1) = 1
  /\ FindLastIndex(lyrics, lyrics[1].time) = 1

\* C30: every object URL that MarkdownImage has created is revoked by the
\* cleanups: once the component is unmounted, no blob URL that it created
\* is left unrevoked.
CreatedUrlsRevoked ==
  ~markdownImage.mounted => markdownImage.created \subseteq markdownImage.revoked

====
